---- MODULE Spec2Model ----
(***************************************************************************)
(* Model of walletScanner.js: a cluster master that keeps one worker per   *)
(* cpu alive, and, in each worker, the consumer callback of the "scan"     *)
(* queue: header fetches, batch fetch, output matching, the decision       *)
(* branches, the publications to the "complete" and "send" queues and the  *)
(* ack / nack of the scan message.                                         *)
(***************************************************************************)
EXTENDS Integers, Sequences, FiniteSets, Bags, TLC

(* ------------------------------ bounds -------------------------------- *)
CpuCount == 2
NumMsgs == 2
MaxChainHeight == 4
MaxDeadline == 3
MaxCrashes == 1
ConfirmationsRequired == 1
MaximumScanBlocks == 1

InitialHeight == 1

Workers == 1..CpuCount
Msgs == 1..NumMsgs

VARIABLES
  wstate,     \* per cluster worker slot: "setup", "consuming" or "dead"
  chain,      \* the blockchain served by the header / sync urls
  payload,    \* content of each message of the scan queue
  loc,        \* broker state of each scan message: "ready", "unacked", "acked"
  h,          \* per scan message: the consumer callback invocation handling it
  completeQ,  \* Config.queues.complete on the public channel
  sendQ,      \* Config.queues.send on the private channel
  crashes,    \* number of worker terminations so far
  forks,      \* number of cluster.fork() calls so far
  memo        \* history: per scan message, what its returned attempts found

vars == <<wstate, chain, payload, loc, h, completeQ, sendQ, crashes, forks, memo>>

(* ------------------------- blockchain service -------------------------- *)
Out(i, g, a, k) == [outputIndex |-> i, globalIndex |-> g, amount |-> a, key |-> k]

Tx(pk, outs) == [publicKey |-> pk, outputs |-> outs]

\* transaction lists a newly mined block may carry; output keys name the
\* wallet that owns the output
BlockChoices ==
  { << >>,
    << Tx(1, << Out(0, 10, 1, 1), Out(1, 11, 1, 2) >>), Tx(2, << Out(0, 20, 1, 2) >>) >> }

Block(height, txs) == [height |-> height, hash |-> height, transactions |-> txs]

Header(c, height) == [height |-> c[height].height, hash |-> c[height].hash]

\* the newest blockCount blocks, whatever the known hash
SyncData_FromTop(c, hash, blockCount) ==
  LET first == IF Len(c) >= blockCount THEN Len(c) - blockCount + 1 ELSE 1
  IN  [i \in 1..(Len(c) - first + 1) |-> c[first + i - 1]]

\* POST syncUrl {lastKnownBlockHashes: [hash], blockCount}: the blocks from
\* the known one on, at most blockCount of them
SyncData(c, hash, blockCount) ==
  LET last == IF hash + blockCount - 1 < Len(c) THEN hash + blockCount - 1 ELSE Len(c)
  IN  [i \in 1..(last - hash + 1) |-> c[hash + i - 1]]

(* ------------------------------ matching ------------------------------- *)
RECURSIVE ReformOutputs(_, _)
ReformOutputs(outputs, k) ==
  IF k > Len(outputs) THEN << >>
  ELSE << [index |-> outputs[k].outputIndex, globalIndex |-> outputs[k].globalIndex,
           amount |-> outputs[k].amount, key |-> outputs[k].key] >>
       \o ReformOutputs(outputs, k + 1)

\* the outputs of the transaction that belong to the wallet
scanTransactionOutputs(publicKey, txnOutputs, wallet) ==
  SelectSeq(txnOutputs, LAMBDA o : o.key = wallet.address)

\* the total assigned instead of added to
RECURSIVE TallyOutputs_Overwrite(_, _, _)
TallyOutputs_Overwrite(acc, outputs, l) ==
  IF l > Len(outputs) THEN acc
  ELSE TallyOutputs_Overwrite([acc EXCEPT !.totalAmount = outputs[l].amount,
                                          !.walletOutputs = Append(@, outputs[l])],
                              outputs, l + 1)

RECURSIVE TallyOutputs(_, _, _)
TallyOutputs(acc, outputs, l) ==
  IF l > Len(outputs) THEN acc
  ELSE TallyOutputs([acc EXCEPT !.totalAmount = @ + outputs[l].amount,
                                !.walletOutputs = Append(@, outputs[l])],
                    outputs, l + 1)

ScanTransaction(acc, block, transaction, wallet) ==
  LET txnOutputs == ReformOutputs(transaction.outputs, 1)
      outputs == scanTransactionOutputs(transaction.publicKey, txnOutputs, wallet)
      acc1 == IF Len(outputs) # 0 /\ block.height > acc.fundsFoundInBlock
              THEN [acc EXCEPT !.fundsFoundInBlock = block.height]
              ELSE acc
  IN  TallyOutputs(acc1, outputs, 1)

RECURSIVE ScanBlock(_, _, _, _)
ScanBlock(acc, block, j, wallet) ==
  IF j > Len(block.transactions) THEN acc
  ELSE ScanBlock(ScanTransaction(acc, block, block.transactions[j], wallet),
                 block, j + 1, wallet)

RECURSIVE ScanBlocks(_, _, _, _)
ScanBlocks(acc, syncData, i, wallet) ==
  IF i > Len(syncData) THEN acc
  ELSE ScanBlocks(ScanBlock(acc, syncData[i], 1, wallet), syncData, i + 1, wallet)

\* the total kept from the first attempt on the same wallet
ScanSyncData_CarryOver(syncData, wallet) ==
  ScanBlocks([walletOutputs |-> << >>, totalAmount |-> memo[wallet.address].totalAmount,
              fundsFoundInBlock |-> 0],
             syncData, 1, wallet)

ScanSyncData(syncData, wallet) ==
  ScanBlocks([walletOutputs |-> << >>, totalAmount |-> 0, fundsFoundInBlock |-> 0],
             syncData, 1, wallet)

(* ------------------------------ decision ------------------------------- *)
\* the partial branch without its confirmation check
Decide_PartialUnconfirmed(walletOutputs, totalAmount, pl, topHeight, fundsFoundInBlock) ==
  IF Len(walletOutputs) > 0
  THEN IF totalAmount >= pl.request.amount
          /\ (topHeight - fundsFoundInBlock) >= ConfirmationsRequired
       THEN "Funded"
       ELSE IF totalAmount >= pl.request.amount
       THEN "PendingConfirmation"
       ELSE IF topHeight > pl.maxHeight
       THEN "PartiallyFundedTimeout"
       ELSE "PendingMore"
  ELSE IF topHeight > pl.maxHeight /\ Len(walletOutputs) = 0
       THEN "TimedOut"
       ELSE "PendingNone"

\* the deadline checked before the amount
Decide_DeadlineFirst(walletOutputs, totalAmount, pl, topHeight, fundsFoundInBlock) ==
  IF Len(walletOutputs) > 0
  THEN IF topHeight > pl.maxHeight
          /\ (topHeight - fundsFoundInBlock) >= ConfirmationsRequired
       THEN "PartiallyFundedTimeout"
       ELSE IF totalAmount >= pl.request.amount
               /\ (topHeight - fundsFoundInBlock) >= ConfirmationsRequired
       THEN "Funded"
       ELSE IF totalAmount >= pl.request.amount
       THEN "PendingConfirmation"
       ELSE "PendingMore"
  ELSE IF topHeight > pl.maxHeight /\ Len(walletOutputs) = 0
       THEN "TimedOut"
       ELSE "PendingNone"

\* the funded branch without its confirmation check
Decide_FundedUnconfirmed(walletOutputs, totalAmount, pl, topHeight, fundsFoundInBlock) ==
  IF Len(walletOutputs) > 0
  THEN IF totalAmount >= pl.request.amount
       THEN "Funded"
       ELSE IF topHeight > pl.maxHeight
               /\ (topHeight - fundsFoundInBlock) >= ConfirmationsRequired
       THEN "PartiallyFundedTimeout"
       ELSE "PendingMore"
  ELSE IF topHeight > pl.maxHeight /\ Len(walletOutputs) = 0
       THEN "TimedOut"
       ELSE "PendingNone"

\* the deadline compared with >= instead of >
Decide_DeadlineInclusive(walletOutputs, totalAmount, pl, topHeight, fundsFoundInBlock) ==
  IF Len(walletOutputs) > 0
  THEN IF totalAmount >= pl.request.amount
          /\ (topHeight - fundsFoundInBlock) >= ConfirmationsRequired
       THEN "Funded"
       ELSE IF totalAmount >= pl.request.amount
       THEN "PendingConfirmation"
       ELSE IF topHeight >= pl.maxHeight
               /\ (topHeight - fundsFoundInBlock) >= ConfirmationsRequired
       THEN "PartiallyFundedTimeout"
       ELSE "PendingMore"
  ELSE IF topHeight >= pl.maxHeight /\ Len(walletOutputs) = 0
       THEN "TimedOut"
       ELSE "PendingNone"

\* the decision without its timeout branch
Decide_NeverTimesOut(walletOutputs, totalAmount, pl, topHeight, fundsFoundInBlock) ==
  IF Len(walletOutputs) > 0
  THEN IF totalAmount >= pl.request.amount
          /\ (topHeight - fundsFoundInBlock) >= ConfirmationsRequired
       THEN "Funded"
       ELSE IF totalAmount >= pl.request.amount
       THEN "PendingConfirmation"
       ELSE IF topHeight > pl.maxHeight
               /\ (topHeight - fundsFoundInBlock) >= ConfirmationsRequired
       THEN "PartiallyFundedTimeout"
       ELSE "PendingMore"
  ELSE "PendingNone"

Decide(walletOutputs, totalAmount, pl, topHeight, fundsFoundInBlock) ==
  IF Len(walletOutputs) > 0
  THEN IF totalAmount >= pl.request.amount
          /\ (topHeight - fundsFoundInBlock) >= ConfirmationsRequired
       THEN "Funded"
       ELSE IF totalAmount >= pl.request.amount
       THEN "PendingConfirmation"
       ELSE IF topHeight > pl.maxHeight
               /\ (topHeight - fundsFoundInBlock) >= ConfirmationsRequired
       THEN "PartiallyFundedTimeout"
       ELSE "PendingMore"
  ELSE IF topHeight > pl.maxHeight /\ Len(walletOutputs) = 0
       THEN "TimedOut"
       ELSE "PendingNone"

\* topBlock.height === payload.scanHeight
NoProgress_MaxHeight(topHeight, pl) ==
  topHeight = pl.maxHeight

NoProgress(topHeight, pl) ==
  topHeight = pl.scanHeight

\* the last branch falling off the end of the callback without a nack
StepsOf_NoFinalNack(branch) ==
  CASE branch = "Funded" -> << "complete100", "send", "ack" >>
    [] branch = "PendingConfirmation" -> << "nack" >>
    [] branch = "PartiallyFundedTimeout" -> << "complete206", "send", "ack" >>
    [] branch = "PendingMore" -> << "nack" >>
    [] branch = "TimedOut" -> << "complete408", "ack" >>
    [] branch = "PendingNone" -> << >>

\* the timed-out branch forwarding to the send queue like the other two
StepsOf_TimedOutSends(branch) ==
  CASE branch = "Funded" -> << "complete100", "send", "ack" >>
    [] branch = "PendingConfirmation" -> << "nack" >>
    [] branch = "PartiallyFundedTimeout" -> << "complete206", "send", "ack" >>
    [] branch = "PendingMore" -> << "nack" >>
    [] branch = "TimedOut" -> << "complete408", "send", "ack" >>
    [] branch = "PendingNone" -> << "nack" >>

\* the acknowledge issued before the publications
StepsOf_AckFirst(branch) ==
  CASE branch = "Funded" -> << "ack", "complete100", "send" >>
    [] branch = "PendingConfirmation" -> << "nack" >>
    [] branch = "PartiallyFundedTimeout" -> << "ack", "complete206", "send" >>
    [] branch = "PendingMore" -> << "nack" >>
    [] branch = "TimedOut" -> << "ack", "complete408" >>
    [] branch = "PendingNone" -> << "nack" >>

\* the funded branch returning the message after its publications
StepsOf_FundedRequeues(branch) ==
  CASE branch = "Funded" -> << "complete100", "send", "nack" >>
    [] branch = "PendingConfirmation" -> << "nack" >>
    [] branch = "PartiallyFundedTimeout" -> << "complete206", "send", "ack" >>
    [] branch = "PendingMore" -> << "nack" >>
    [] branch = "TimedOut" -> << "complete408", "ack" >>
    [] branch = "PendingNone" -> << "nack" >>

\* the calls each branch makes on the channels, in program order
StepsOf(branch) ==
  CASE branch = "Funded" -> << "complete100", "send", "ack" >>
    [] branch = "PendingConfirmation" -> << "nack" >>
    [] branch = "PartiallyFundedTimeout" -> << "complete206", "send", "ack" >>
    [] branch = "PendingMore" -> << "nack" >>
    [] branch = "TimedOut" -> << "complete408", "ack" >>
    [] branch = "PendingNone" -> << "nack" >>

StatusOf(op) ==
  CASE op = "complete100" -> 100
    [] op = "complete206" -> 206
    [] op = "complete408" -> 408

CompletionEvent(pl, status) ==
  [address |-> pl.wallet.address, status |-> status, request |-> pl.request]

WithFunds(pl, walletOutputs) ==
  [wallet |-> pl.wallet, request |-> pl.request, scanHeight |-> pl.scanHeight,
   maxHeight |-> pl.maxHeight, funds |-> walletOutputs]

(* --------------------------- handler records --------------------------- *)
NoHandler ==
  [worker |-> 0, pc |-> "none", topHeight |-> 0, startOk |-> FALSE,
   batchIssued |-> FALSE, failed |-> "none", matched |-> FALSE, syncData |-> << >>,
   walletOutputs |-> << >>, totalAmount |-> 0, fundsFoundInBlock |-> 0,
   branch |-> "none", acks |-> 0, nacks |-> 0, pub |-> << >>, fwd |-> << >>]

NoMemo ==
  [seen |-> FALSE, worker |-> 0, topHeight |-> 0, syncData |-> << >>, totalAmount |-> 0,
   branch |-> "none", acks |-> 0, nacks |-> 0, pub |-> << >>, fwd |-> << >>,
   some |-> FALSE, full |-> FALSE]

\* a callback has made its last call and is about to return; the return
\* touches nothing but the callback's own locals, so it is taken first
Returning == \E m \in Msgs : h[m].pc \in {"done", "crashed"}

CanResume(m) ==
  /\ ~Returning
  /\ wstate[h[m].worker] = "consuming"

\* the channels as one callback sees them: the two produced queues, the
\* broker state of its scan message and the calls it has made so far
Channels(m) ==
  [completeQ |-> completeQ, sendQ |-> sendQ, loc |-> loc[m], content |-> payload[m],
   pub |-> << >>, fwd |-> << >>, acks |-> 0, nacks |-> 0]

\* one channel call, where nack puts the working copy of the payload, funds
\* attached, back on the scan queue
Call_NackWorkingCopy(op, st, pl, walletOutputs) ==
  CASE op \in {"complete100", "complete206", "complete408"} ->
         LET ev == CompletionEvent(pl, StatusOf(op))
         IN  [st EXCEPT !.completeQ = @ (+) SetToBag({ev}), !.pub = Append(@, ev)]
    [] op = "send" ->
         LET fw == WithFunds(pl, walletOutputs)
         IN  [st EXCEPT !.sendQ = @ (+) SetToBag({fw}), !.fwd = Append(@, fw)]
    [] op = "ack" ->
         [st EXCEPT !.acks = @ + 1, !.loc = IF @ = "unacked" THEN "acked" ELSE @]
    [] op = "nack" ->
         [st EXCEPT !.nacks = @ + 1, !.loc = IF @ = "unacked" THEN "ready" ELSE @,
                    !.content = WithFunds(pl, walletOutputs)]

\* one channel call; nack(message) returns the delivery itself, whose content
\* is what was delivered (pl), not the parsed copy the callback works on
Call(op, st, pl, walletOutputs) ==
  CASE op \in {"complete100", "complete206", "complete408"} ->
         LET ev == CompletionEvent(pl, StatusOf(op))
         IN  [st EXCEPT !.completeQ = @ (+) SetToBag({ev}), !.pub = Append(@, ev)]
    [] op = "send" ->
         LET fw == WithFunds(pl, walletOutputs)
         IN  [st EXCEPT !.sendQ = @ (+) SetToBag({fw}), !.fwd = Append(@, fw)]
    [] op = "ack" ->
         [st EXCEPT !.acks = @ + 1, !.loc = IF @ = "unacked" THEN "acked" ELSE @]
    [] op = "nack" ->
         [st EXCEPT !.nacks = @ + 1, !.loc = IF @ = "unacked" THEN "ready" ELSE @,
                    !.content = pl]

\* the calls ops[i..k], in order
RECURSIVE Calls(_, _, _, _, _, _)
Calls(ops, i, k, st, pl, walletOutputs) ==
  IF i > k THEN st
  ELSE Calls(ops, i + 1, k, Call(ops[i], st, pl, walletOutputs), pl, walletOutputs)

\* privateChannel.nack(message) and return
Nack_NoRequeue(m, hm) ==
  /\ h' = [h EXCEPT ![m] = [hm EXCEPT !.nacks = @ + 1, !.pc = "done"]]
  /\ loc' = [loc EXCEPT ![m] = "acked"]
  /\ payload' = payload

Nack(m, hm) ==
  LET st == Call("nack", Channels(m), payload[m], << >>)
  IN  /\ h' = [h EXCEPT ![m] = [hm EXCEPT !.nacks = st.nacks, !.pc = "done"]]
      /\ loc' = [loc EXCEPT ![m] = st.loc]
      /\ payload' = [payload EXCEPT ![m] = st.content]

(* ------------------------------ master --------------------------------- *)
\* a replacement forked twice
spawnNewWorker_Twice(n) ==
  n + 2

\* cluster.fork()
spawnNewWorker(n) ==
  n + 1

\* for (cpuThread = 0; cpuThread < cpuCount; cpuThread++) spawnNewWorker()
RECURSIVE BootForks(_, _)
BootForks(cpuThread, n) ==
  IF cpuThread < CpuCount THEN BootForks(cpuThread + 1, spawnNewWorker(n)) ELSE n

(* ------------------------------- Init ---------------------------------- *)
\* the request of wallet a, created at the initial height, with deadline d
Request(a, d) ==
  [wallet |-> [address |-> a], request |-> [amount |-> IF a % 2 = 1 THEN 2 ELSE 1],
   scanHeight |-> InitialHeight, maxHeight |-> d]

Init ==
  /\ wstate = [w \in Workers |-> "setup"]
  /\ chain = [i \in 1..InitialHeight |-> Block(i, << >>)]
  /\ \E d \in InitialHeight..MaxDeadline : payload = [m \in Msgs |-> Request(m, d)]
  /\ loc = [m \in Msgs |-> "ready"]
  /\ h = [m \in Msgs |-> NoHandler]
  /\ completeQ = EmptyBag
  /\ sendQ = EmptyBag
  /\ crashes = 0
  /\ forks = BootForks(0, 0)
  /\ memo = [m \in Msgs |-> NoMemo]

\* cluster.on('exit'): spawnNewWorker
Respawn(w) ==
  /\ wstate[w] = "dead"
  /\ wstate' = [wstate EXCEPT ![w] = "setup"]
  /\ forks' = spawnNewWorker(forks)
  /\ UNCHANGED <<chain, payload, loc, h, completeQ, sendQ, crashes, memo>>

(* ------------------------------ worker --------------------------------- *)
\* the connections, channels and queues are set up and consume is registered
SetupOk(w) ==
  /\ ~Returning
  /\ wstate[w] = "setup"
  /\ wstate' = [wstate EXCEPT ![w] = "consuming"]
  /\ UNCHANGED <<chain, payload, loc, h, completeQ, sendQ, crashes, forks, memo>>

\* the unacknowledged deliveries of a closed channel return to the queue
Terminate(w) ==
  /\ wstate' = [wstate EXCEPT ![w] = "dead"]
  /\ crashes' = crashes + 1
  /\ h' = [m \in Msgs |-> IF h[m].worker = w THEN NoHandler ELSE h[m]]
  /\ loc' = [m \in Msgs |-> IF h[m].worker = w /\ loc[m] = "unacked"
                            THEN "ready" ELSE loc[m]]

\* setup throws: catch, cluster.worker.kill()
SetupFail(w) ==
  /\ ~Returning
  /\ wstate[w] = "setup"
  /\ crashes < MaxCrashes
  /\ Terminate(w)
  /\ UNCHANGED <<chain, payload, completeQ, sendQ, forks, memo>>

\* the worker process dies at an arbitrary point
Crash(w) ==
  /\ ~Returning
  /\ wstate[w] = "consuming"
  /\ crashes < MaxCrashes
  /\ Terminate(w)
  /\ UNCHANGED <<chain, payload, completeQ, sendQ, forks, memo>>

\* the broker pushes a ready message to a consumer; the callback parses it
\* and requests the top header
Deliver(w, m) ==
  /\ ~Returning
  /\ wstate[w] = "consuming"
  /\ loc[m] = "ready"
  /\ loc' = [loc EXCEPT ![m] = "unacked"]
  /\ h' = [h EXCEPT ![m] = [NoHandler EXCEPT !.worker = w, !.pc = "awaitTop"]]
  /\ UNCHANGED <<wstate, chain, payload, completeQ, sendQ, crashes, forks, memo>>

TopOk(m) ==
  /\ h[m].pc = "awaitTop"
  /\ CanResume(m)
  /\ h' = [h EXCEPT ![m] = [@ EXCEPT !.topHeight = Header(chain, Len(chain)).height,
                                     !.pc = "awaitStart"]]
  /\ UNCHANGED <<wstate, chain, payload, loc, completeQ, sendQ, crashes, forks, memo>>

TopFail(m) ==
  /\ h[m].pc = "awaitTop"
  /\ CanResume(m)
  /\ Nack(m, [h[m] EXCEPT !.failed = "top"])
  /\ UNCHANGED <<wstate, chain, completeQ, sendQ, crashes, forks, memo>>

StartOk(m) ==
  /\ h[m].pc = "awaitStart"
  /\ CanResume(m)
  /\ payload[m].scanHeight \in 1..Len(chain)
  /\ LET hm == [h[m] EXCEPT !.startOk = TRUE]
     IN  IF NoProgress(hm.topHeight, payload[m])
         THEN Nack(m, hm)
         ELSE /\ h' = [h EXCEPT ![m] = [hm EXCEPT !.batchIssued = TRUE,
                                                  !.pc = "awaitBatch"]]
              /\ UNCHANGED <<loc, payload>>
  /\ UNCHANGED <<wstate, chain, completeQ, sendQ, crashes, forks, memo>>

StartFail(m) ==
  /\ h[m].pc = "awaitStart"
  /\ CanResume(m)
  /\ Nack(m, [h[m] EXCEPT !.failed = "start"])
  /\ UNCHANGED <<wstate, chain, completeQ, sendQ, crashes, forks, memo>>

\* what the callback has computed when the sync data is in hand
Matched(m) ==
  LET startBlock == Header(chain, payload[m].scanHeight)
      syncData == SyncData(chain, startBlock.hash, MaximumScanBlocks + 1)
      acc == ScanSyncData(syncData, payload[m].wallet)
  IN  [h[m] EXCEPT
         !.matched = TRUE,
         !.syncData = syncData,
         !.walletOutputs = acc.walletOutputs,
         !.totalAmount = acc.totalAmount,
         !.fundsFoundInBlock = acc.fundsFoundInBlock,
         !.branch = Decide(acc.walletOutputs, acc.totalAmount, payload[m],
                           h[m].topHeight, acc.fundsFoundInBlock)]

\* the sync data arrives: matching, decision and the calls of the branch
\* taken run without suspension (hm and st are each computed once)
BatchOk(m) ==
  /\ h[m].pc = "awaitBatch"
  /\ CanResume(m)
  /\ \E hm \in {Matched(m)} :
       \E st \in {Calls(StepsOf(hm.branch), 1, Len(StepsOf(hm.branch)), Channels(m),
                        payload[m], hm.walletOutputs)} :
         /\ h' = [h EXCEPT ![m] = [hm EXCEPT !.pub = st.pub, !.fwd = st.fwd,
                                             !.acks = st.acks, !.nacks = st.nacks,
                                             !.pc = "done"]]
         /\ loc' = [loc EXCEPT ![m] = st.loc]
         /\ payload' = [payload EXCEPT ![m] = st.content]
         /\ completeQ' = st.completeQ
         /\ sendQ' = st.sendQ
  /\ UNCHANGED <<wstate, chain, crashes, forks, memo>>

\* the same, but the worker process dies after the k-th call of the branch
BatchCrash(m, k) ==
  /\ h[m].pc = "awaitBatch"
  /\ CanResume(m)
  /\ crashes < MaxCrashes
  /\ LET hm == Matched(m)
         ops == StepsOf(hm.branch)
         st == Calls(ops, 1, k, Channels(m), payload[m], hm.walletOutputs)
         w == h[m].worker
     IN  /\ k < Len(ops)
         /\ completeQ' = st.completeQ
         /\ sendQ' = st.sendQ
         /\ wstate' = [wstate EXCEPT ![w] = "dead"]
         /\ crashes' = crashes + 1
         /\ h' = [n \in Msgs |->
                   IF n = m
                   THEN [hm EXCEPT !.pub = st.pub, !.fwd = st.fwd, !.acks = st.acks,
                                   !.nacks = st.nacks, !.pc = "crashed"]
                   ELSE IF h[n].worker = w THEN NoHandler ELSE h[n]]
         /\ loc' = [n \in Msgs |->
                     LET l == IF n = m THEN st.loc ELSE loc[n]
                     IN  IF h[n].worker = w /\ l = "unacked" THEN "ready" ELSE l]
         /\ payload' = [payload EXCEPT ![m] = st.content]
  /\ UNCHANGED <<chain, forks, memo>>

\* the sync data arrives but the matching throws (a block without a
\* transactions list, a throwing matcher): the promise of the async callback
\* is rejected and nobody handles the rejection. Either the runtime ends the
\* process on the unhandled rejection (exits), or it only warns and the
\* worker goes on, the delivery neither acknowledged nor returned.
MatchThrow(m, exits) ==
  /\ h[m].pc = "awaitBatch"
  /\ CanResume(m)
  /\ LET w == h[m].worker
     IN  IF exits
         THEN /\ crashes < MaxCrashes
              /\ wstate' = [wstate EXCEPT ![w] = "dead"]
              /\ crashes' = crashes + 1
              /\ h' = [n \in Msgs |->
                        IF n = m THEN [h[m] EXCEPT !.failed = "threw", !.pc = "crashed"]
                        ELSE IF h[n].worker = w THEN NoHandler ELSE h[n]]
              /\ loc' = [n \in Msgs |-> IF h[n].worker = w /\ loc[n] = "unacked"
                                        THEN "ready" ELSE loc[n]]
         ELSE /\ h' = [h EXCEPT ![m] = [@ EXCEPT !.failed = "threw", !.pc = "thrown"]]
              /\ UNCHANGED <<wstate, crashes, loc>>
  /\ UNCHANGED <<chain, payload, completeQ, sendQ, forks, memo>>

BatchFail(m) ==
  /\ h[m].pc = "awaitBatch"
  /\ CanResume(m)
  /\ Nack(m, [h[m] EXCEPT !.failed = "batch"])
  /\ UNCHANGED <<wstate, chain, completeQ, sendQ, crashes, forks, memo>>

\* the callback returns, or its process is gone; its locals are dropped
Return(m) ==
  /\ h[m].pc \in {"done", "crashed"}
  /\ h' = [h EXCEPT ![m] = NoHandler]
  /\ UNCHANGED <<wstate, chain, payload, loc, completeQ, sendQ, crashes, forks, memo>>

\* the same return, with the history kept: the first attempt on m that ran
\* to its end, and whether any attempt found outputs, or the full amount
Remember(m) ==
  LET first == IF ~memo[m].seen /\ h[m].matched /\ h[m].pc = "done"
               THEN [memo[m] EXCEPT !.seen = TRUE, !.worker = h[m].worker,
                       !.topHeight = h[m].topHeight, !.syncData = h[m].syncData,
                       !.totalAmount = h[m].totalAmount, !.branch = h[m].branch,
                       !.acks = h[m].acks, !.nacks = h[m].nacks,
                       !.pub = h[m].pub, !.fwd = h[m].fwd]
               ELSE memo[m]
  IN  [first EXCEPT
         !.some = @ \/ (h[m].matched /\ Len(h[m].walletOutputs) > 0),
         !.full = @ \/ (h[m].matched /\ h[m].totalAmount >= payload[m].request.amount)]

Record(m) ==
  /\ h[m].pc \in {"done", "crashed"}
  /\ h' = [h EXCEPT ![m] = NoHandler]
  /\ memo' = [memo EXCEPT ![m] = Remember(m)]
  /\ UNCHANGED <<wstate, chain, payload, loc, completeQ, sendQ, crashes, forks>>

(* ------------------------------ chain ---------------------------------- *)
AppendBlock(txs) ==
  /\ ~Returning
  /\ Len(chain) < MaxChainHeight
  /\ chain' = Append(chain, Block(Len(chain) + 1, txs))
  /\ UNCHANGED <<wstate, payload, loc, h, completeQ, sendQ, crashes, forks, memo>>

Next ==
  \/ \E w \in Workers : Respawn(w)
  \/ \E w \in Workers : SetupOk(w)
  \/ \E w \in Workers : SetupFail(w)
  \/ \E w \in Workers : Crash(w)
  \/ \E w \in Workers, m \in Msgs : Deliver(w, m)
  \/ \E m \in Msgs : TopOk(m)
  \/ \E m \in Msgs : TopFail(m)
  \/ \E m \in Msgs : StartOk(m)
  \/ \E m \in Msgs : StartFail(m)
  \/ \E m \in Msgs : BatchOk(m)
  \/ \E m \in Msgs : BatchFail(m)
  \/ \E m \in Msgs, k \in 1..2 : BatchCrash(m, k)
  \/ \E m \in Msgs, exits \in BOOLEAN : MatchThrow(m, exits)
  \/ \E m \in Msgs : Return(m)
  \/ \E txs \in BlockChoices : AppendBlock(txs)

Spec == Init /\ [][Next]_vars

\* the event loop of the master runs the handler of every exit event, and a
\* callback that has made its last call returns
LiveSpec ==
  /\ Spec
  /\ \A w \in Workers : WF_vars(Respawn(w))
  /\ \A m \in Msgs : WF_vars(Return(m))

\* the program observed with the history of each message kept: the attempts
\* that run to their end, the failing fetches and the deaths of a worker
\* between two calls
HistNext ==
  \/ \E w \in Workers : Respawn(w)
  \/ \E w \in Workers : SetupOk(w)
  \/ \E w \in Workers : Crash(w)
  \/ \E w \in Workers, m \in Msgs : Deliver(w, m)
  \/ \E m \in Msgs : TopOk(m)
  \/ \E m \in Msgs : TopFail(m)
  \/ \E m \in Msgs : StartOk(m)
  \/ \E m \in Msgs : StartFail(m)
  \/ \E m \in Msgs : BatchOk(m)
  \/ \E m \in Msgs : BatchFail(m)
  \/ \E m \in Msgs : Record(m)
  \/ \E txs \in BlockChoices : AppendBlock(txs)

HistSpec == Init /\ [][HistNext]_vars

\* the program with a handler that does not throw, in workers that stay up
ProgressNext ==
  \/ \E w \in Workers : SetupOk(w)
  \/ \E w \in Workers, m \in Msgs : Deliver(w, m)
  \/ \E m \in Msgs : TopOk(m)
  \/ \E m \in Msgs : TopFail(m)
  \/ \E m \in Msgs : StartOk(m)
  \/ \E m \in Msgs : StartFail(m)
  \/ \E m \in Msgs : BatchOk(m)
  \/ \E m \in Msgs : BatchFail(m)
  \/ \E m \in Msgs : Return(m)
  \/ \E txs \in BlockChoices : AppendBlock(txs)

\* what the platform does by itself: a worker finishes its setup, the broker
\* delivers a ready message, a callback that made its last call returns
Platform ==
  \/ \E w \in Workers : SetupOk(w)
  \/ \E w \in Workers, m \in Msgs : Deliver(w, m)
  \/ \E m \in Msgs : Return(m)

\* the platform keeps running, the head of the chain keeps growing, and each
\* of the three fetches, made again and again, ends up succeeding
ProgressSpec ==
  /\ Init /\ [][ProgressNext]_vars
  /\ SF_vars(Platform)
  /\ SF_vars(\E txs \in BlockChoices : AppendBlock(txs))
  /\ SF_vars(\E m \in Msgs : TopOk(m))
  /\ SF_vars(\E m \in Msgs : StartOk(m))
  /\ SF_vars(\E m \in Msgs : BatchOk(m))

TypeOK ==
  /\ wstate \in [Workers -> {"setup", "consuming", "dead"}]
  /\ loc \in [Msgs -> {"ready", "unacked", "acked"}]
  /\ Len(chain) \in InitialHeight..MaxChainHeight
  /\ crashes \in 0..MaxCrashes

(* ------------------- observations on one attempt ----------------------- *)
\* the callback handling m has returned
Done(m) == h[m].pc = "done"

\* the attempt on m reached the decision step
Decided(m) == h[m].matched

Confirmations(m) == h[m].topHeight - h[m].fundsFoundInBlock

NonEmpty(m) == Len(h[m].walletOutputs) > 0

FullAmount(m) == h[m].totalAmount >= payload[m].request.amount

PastDeadline(m) == h[m].topHeight > payload[m].maxHeight

Confirmed(m) == Confirmations(m) >= ConfirmationsRequired

Statuses(m) == { h[m].pub[i].status : i \in DOMAIN h[m].pub }

RECURSIVE SumAmounts(_)
SumAmounts(outs) == IF outs = << >> THEN 0 ELSE Head(outs).amount + SumAmounts(Tail(outs))

\* one acknowledge, one CompletionEvent of the given status and, if forward,
\* one payload carrying the matched outputs
Terminal(m, status, forward) ==
  /\ h[m].acks = 1 /\ h[m].nacks = 0
  /\ Len(h[m].pub) = 1
  /\ h[m].pub[1].status = status
  /\ h[m].pub[1].address = payload[m].wallet.address
  /\ h[m].pub[1].request = payload[m].request
  /\ BagIn(h[m].pub[1], completeQ)
  /\ IF forward
     THEN /\ Len(h[m].fwd) = 1
          /\ h[m].fwd[1].funds = h[m].walletOutputs
          /\ h[m].fwd[1].wallet = payload[m].wallet
          /\ BagIn(h[m].fwd[1], sendQ)
     ELSE h[m].fwd = << >>
  /\ loc[m] = "acked"

\* one negative acknowledge and nothing else
Requeued(m) ==
  /\ h[m].acks = 0 /\ h[m].nacks = 1
  /\ h[m].pub = << >> /\ h[m].fwd = << >>
  /\ loc[m] = "ready"

(* ---------------- the branch conditions of section 4.1 ----------------- *)
CondFunded(m) == NonEmpty(m) /\ FullAmount(m) /\ Confirmed(m)

CondPendingConfirmation(m) == NonEmpty(m) /\ FullAmount(m) /\ ~Confirmed(m)

CondPartiallyFundedTimeout(m) ==
  NonEmpty(m) /\ ~FullAmount(m) /\ PastDeadline(m) /\ Confirmed(m)

CondPendingMore(m) == NonEmpty(m) /\ ~FullAmount(m) /\ ~PastDeadline(m)

CondPendingMoreAmended(m) ==
  NonEmpty(m) /\ ~FullAmount(m) /\ ~(PastDeadline(m) /\ Confirmed(m))

CondTimedOut(m) == ~NonEmpty(m) /\ PastDeadline(m)

CondPendingNone(m) == ~NonEmpty(m) /\ ~PastDeadline(m)

ExactlyOne(conds) == Cardinality({ i \in DOMAIN conds : conds[i] }) = 1

BranchesAsWritten(m, pendingMore) ==
  /\ ExactlyOne(<< CondFunded(m), CondPendingConfirmation(m),
                   CondPartiallyFundedTimeout(m), pendingMore,
                   CondTimedOut(m), CondPendingNone(m) >>)
  /\ CondFunded(m) => Terminal(m, 100, TRUE)
  /\ CondPendingConfirmation(m) => Requeued(m)
  /\ CondPartiallyFundedTimeout(m) => Terminal(m, 206, TRUE)
  /\ pendingMore => Requeued(m)
  /\ CondTimedOut(m) => Terminal(m, 408, FALSE)
  /\ CondPendingNone(m) => Requeued(m)

C2_ExactlyOneResolution ==
  \A m \in Msgs : Done(m) =>
    /\ h[m].acks + h[m].nacks = 1
    /\ h[m].acks = 1 => loc[m] = "acked"
    /\ h[m].nacks = 1 => loc[m] = "ready"

\* an attempt that fell through to the final nack
C2_Witness ==
  \E m \in Msgs : Done(m) /\ Decided(m) /\ CondPendingNone(m) /\ h[m].nacks = 1

\* C3: an attempt with matched outputs, the full amount and enough
\* confirmations is Funded (one status 100, one payload with funds, ack)
\* whether or not the deadline has passed; and no attempt that found the
\* full amount emits status 206 or 408.
C3_FundedPrecedence ==
  \A m \in Msgs :
    /\ Done(m) /\ Decided(m) /\ NonEmpty(m) /\ FullAmount(m) /\ Confirmed(m)
         => Terminal(m, 100, TRUE)
    /\ Decided(m) /\ FullAmount(m) => Statuses(m) \cap {206, 408} = {}

\* a Funded attempt past the deadline
C3_Witness ==
  \E m \in Msgs : Done(m) /\ Decided(m) /\ PastDeadline(m) /\ Terminal(m, 100, TRUE)

\* C4: no status 100 or 206 and no send payload is emitted by an attempt
\* whose confirmations (top height minus the height of the funds) are below
\* the required number; such an attempt with matched outputs ends in a nack.
C4_ConfirmationGate ==
  \A m \in Msgs : Decided(m) /\ ~Confirmed(m) =>
    /\ Statuses(m) \cap {100, 206} = {}
    /\ h[m].fwd = << >>
    /\ Done(m) /\ NonEmpty(m) => Requeued(m)

\* the full amount found but not yet confirmed
C4_Witness ==
  \E m \in Msgs : Done(m) /\ Decided(m) /\ NonEmpty(m) /\ FullAmount(m)
                  /\ ~Confirmed(m) /\ Requeued(m)

\* C5: status 206 or 408 is emitted, and a request short of its amount is
\* acknowledged, only when the top height is strictly above maxHeight; up
\* to the deadline an attempt that is not both fully funded and confirmed
\* ends in a nack with no emission; an acknowledge is always one of Funded,
\* PartiallyFundedTimeout, TimedOut.
C5_DeadlineGate ==
  \A m \in Msgs :
    /\ Decided(m) /\ (Statuses(m) \cap {206, 408} # {} \/ (h[m].acks > 0 /\ ~FullAmount(m)))
         => PastDeadline(m)
    /\ Done(m) /\ Decided(m) /\ ~PastDeadline(m) /\ ~(FullAmount(m) /\ Confirmed(m))
         => Requeued(m)
    /\ Done(m) /\ h[m].acks > 0
         => /\ Decided(m)
            /\ \/ Terminal(m, 100, TRUE)
               \/ Terminal(m, 206, TRUE)
               \/ Terminal(m, 408, FALSE)

\* nothing found and the top height exactly at maxHeight: not yet timed out
C5_Witness ==
  \E m \in Msgs : Done(m) /\ Decided(m) /\ ~NonEmpty(m)
                  /\ h[m].topHeight = payload[m].maxHeight /\ Requeued(m)

\* C6: an attempt that returns has sent a payload to the send queue exactly
\* if it published status 100 or 206; a payload is never sent before that
\* publication; the payload is the request with funds equal to the matched
\* outputs of the attempt, whose amounts sum to totalAmount; an attempt
\* that publishes 408 sends nothing.
C6_ForwardIffFunds ==
  \A m \in Msgs :
    /\ Done(m) => (h[m].fwd # << >> <=> Statuses(m) \cap {100, 206} # {})
    /\ h[m].fwd # << >> => Statuses(m) \cap {100, 206} # {}
    /\ 408 \in Statuses(m) => h[m].fwd = << >>
    /\ Len(h[m].fwd) <= 1
    /\ \A i \in DOMAIN h[m].fwd :
         /\ h[m].fwd[i].funds = h[m].walletOutputs
         /\ SumAmounts(h[m].fwd[i].funds) = h[m].totalAmount
         /\ h[m].fwd[i].wallet = payload[m].wallet
         /\ h[m].fwd[i].request = payload[m].request
         /\ h[m].fwd[i].scanHeight = payload[m].scanHeight
         /\ h[m].fwd[i].maxHeight = payload[m].maxHeight
         /\ BagIn(h[m].fwd[i], sendQ)

\* a partially funded request forwarded with the funds found
C6_Witness ==
  \E m \in Msgs : /\ Done(m) /\ Terminal(m, 206, TRUE)
                  /\ SumAmounts(h[m].fwd[1].funds) = 1
                  /\ payload[m].request.amount = 2

\* the CompletionEvents of request m on the complete queue
EventsOf(m) == { e \in BagToSet(completeQ) : e.address = payload[m].wallet.address }

\* the payloads of request m on the send queue
ForwardsOf(m) == { f \in BagToSet(sendQ) : f.wallet = payload[m].wallet }

InFlight(w) ==
  { m \in Msgs : h[m].worker = w /\ h[m].pc \in {"awaitTop", "awaitStart", "awaitBatch", "done"} }

\* C8 as stated: a worker context has at most one scan message in flight.
\* Fails: consume is registered without a prefetch limit, so the broker
\* delivers a second message while the first callback awaits a fetch.
C8_OneInFlight ==
  \A w \in Workers : Cardinality(InFlight(w)) <= 1

\* C9: an attempt whose two header fetches succeed and whose top height
\* equals scanHeight ends in a nack, issues no batch fetch, does no
\* matching and emits nothing.
C9_NoProgressShortCircuit ==
  \A m \in Msgs : Done(m) /\ h[m].startOk /\ h[m].topHeight = payload[m].scanHeight =>
    /\ Requeued(m)
    /\ ~h[m].batchIssued
    /\ ~Decided(m)

\* the chain head is still at scanHeight
C9_Witness ==
  \E m \in Msgs : /\ Done(m) /\ h[m].startOk /\ h[m].failed = "none"
                  /\ h[m].topHeight = payload[m].scanHeight /\ Requeued(m)

\* C10: an attempt in which a fetch fails ends in a nack, emits nothing,
\* takes no later step (no batch fetch after a header failure, no start
\* header after a top failure, no matching), and leaves its worker
\* consuming and the message ready for redelivery.
C10_TransientFailure ==
  \A m \in Msgs : Done(m) /\ h[m].failed # "none" =>
    /\ Requeued(m)
    /\ ~Decided(m)
    /\ h[m].failed \in {"top", "start"} => ~h[m].batchIssued
    /\ h[m].failed = "top" => ~h[m].startOk
    /\ h[m].failed = "batch" => h[m].startOk /\ h[m].batchIssued
    /\ wstate[h[m].worker] = "consuming"

\* the batch fetch failed after both headers were read
C10_Witness ==
  \E m \in Msgs : Done(m) /\ h[m].failed = "batch" /\ Requeued(m)
                  /\ wstate[h[m].worker] = "consuming"

(* ----------------------------- worker pool ----------------------------- *)
LiveWorkers == { w \in Workers : wstate[w] # "dead" }

\* exit events the master has not handled yet
PendingExits == { w \in Workers : wstate[w] = "dead" }

C12_ThrowTerminates ==
  \A m \in Msgs : h[m].failed = "threw" =>
    /\ h[m].pc = "crashed"
    /\ wstate[h[m].worker] \in {"dead", "setup"}
    /\ loc[m] = "ready"

(* ------------------------------ the tally ------------------------------ *)
\* the places <<block, transaction, output>> of a batch that hold an output
\* of the wallet
Owned(syncData, wallet) ==
  { p \in UNION { UNION { { <<i, j, k>> : k \in DOMAIN syncData[i].transactions[j].outputs } :
                          j \in DOMAIN syncData[i].transactions } :
                  i \in DOMAIN syncData } :
      syncData[p[1]].transactions[p[2]].outputs[p[3]].key = wallet.address }

RECURSIVE AmountAt(_, _)
AmountAt(syncData, places) ==
  IF places = {} THEN 0
  ELSE LET p == CHOOSE q \in places : TRUE
       IN  syncData[p[1]].transactions[p[2]].outputs[p[3]].amount
           + AmountAt(syncData, places \ {p})

HighestOf(heights) == IF heights = {} THEN 0 ELSE CHOOSE x \in heights : \A y \in heights : y <= x

SameInputs(m) ==
  /\ Done(m) /\ Decided(m)
  /\ memo[m].seen
  /\ memo[m].topHeight = h[m].topHeight
  /\ memo[m].syncData = h[m].syncData

EndsInNack(m) ==
  /\ h[m].pc # "done"
  /\ h'[m].pc = "done"
  /\ h'[m].nacks > 0

\* C15: an attempt that ends in nack leaves the complete and send queues as
\* they were and returns the scan message with the payload it was delivered
\* with; the content of a scan message never changes, so every redelivery
\* carries the payload of the first delivery.
C15_NackFrame ==
  [][/\ \A m \in Msgs : EndsInNack(m) =>
          /\ completeQ' = completeQ
          /\ sendQ' = sendQ
          /\ h'[m].pub = << >>
          /\ h'[m].fwd = << >>
          /\ loc'[m] = "ready"
          /\ payload'[m] = payload[m]
     /\ payload' = payload
     /\ \A m \in Msgs : payload'[m] = Request(m, payload[m].maxHeight)]_vars

\* a redelivery after an attempt that found outputs and nacked
C15_Witness ==
  \E m \in Msgs :
    /\ memo[m].seen /\ memo[m].nacks = 1 /\ memo[m].some
    /\ h[m].pc = "awaitTop"
    /\ payload[m] = Request(m, payload[m].maxHeight)

\* C18: once an attempt has found the full amount, no later attempt on the
\* request finds less, nor emits 206 or 408; once an attempt has found
\* outputs, no later attempt finds none, nor emits 408.
C18_NoRegression ==
  \A m \in Msgs : Decided(m) =>
    /\ memo[m].full => /\ FullAmount(m)
                       /\ Statuses(m) \cap {206, 408} = {}
    /\ memo[m].some => /\ NonEmpty(m)
                       /\ 408 \notin Statuses(m)

\* a request pending confirmation in an earlier attempt, funded in this one
C18_Witness ==
  \E m \in Msgs : /\ Done(m) /\ memo[m].full /\ memo[m].seen /\ memo[m].nacks = 1
                  /\ Statuses(m) = {100}

(* ----------------------------- lifetime -------------------------------- *)
RECURSIVE Copies(_, _)
Copies(B, S) ==
  IF S = {} THEN 0
  ELSE LET x == CHOOSE y \in S : TRUE IN CopiesIn(x, B) + Copies(B, S \ {x})

\* C19: as long as no worker has died, a request has at most one
\* CompletionEvent and at most one payload on the send queue, the callback
\* that emitted is the one that acknowledged, and an acknowledged message has
\* no callback other than the one that acknowledged it.
C19_AtMostOnce ==
  crashes = 0 =>
    \A m \in Msgs :
      /\ Copies(completeQ, EventsOf(m)) <= 1
      /\ Copies(sendQ, ForwardsOf(m)) <= 1
      /\ (EventsOf(m) # {} \/ ForwardsOf(m) # {}) => loc[m] = "acked"
      /\ (h[m].pub # << >> \/ h[m].fwd # << >>) => h[m].acks = 1
      /\ loc[m] = "acked" => \/ h[m] = NoHandler
                             \/ Done(m) /\ h[m].acks = 1

\* every request resolved, each with its one event, and no worker has died
C19_Witness ==
  /\ crashes = 0
  /\ \A m \in Msgs : /\ loc[m] = "acked" /\ h[m] = NoHandler
                     /\ Copies(completeQ, EventsOf(m)) = 1
  /\ \E m \in Msgs : Copies(sendQ, ForwardsOf(m)) = 1

(* ------------------------------ progress ------------------------------- *)
\* C16: with a chain that keeps growing, fetches that end up succeeding, a
\* handler that does not throw and redelivery of what was returned, every
\* request ends up acknowledged, with a CompletionEvent of status 100, 206
\* or 408 on the complete queue.
C16_EventuallyResolved ==
  \A m \in Msgs :
    <>[](/\ loc[m] = "acked"
         /\ \E e \in EventsOf(m) : e.status \in {100, 206, 408})

\* every request resolved, one partially and one fully funded
C16_Witness ==
  /\ \A m \in Msgs : loc[m] = "acked" /\ EventsOf(m) # {}
  /\ \E m \in Msgs : \E e \in EventsOf(m) : e.status = 206
  /\ \E m \in Msgs : \E e \in EventsOf(m) : e.status = 100

(* ------------------------------ deadline ------------------------------- *)
\* the chain holds an output of the wallet of m in a block above scanHeight
\* and not above height hi
PaidUpTo(m, hi) ==
  \E i \in DOMAIN chain :
    /\ chain[i].height > payload[m].scanHeight
    /\ chain[i].height <= hi
    /\ \E j \in DOMAIN chain[i].transactions :
         \E k \in DOMAIN chain[i].transactions[j].outputs :
           chain[i].transactions[j].outputs[k].key = payload[m].wallet.address

\* C17: 408 is emitted only if the chain holds no output of the wallet in a
\* block above scanHeight and up to maxHeight.
C17_AsWritten ==
  \A m \in Msgs : Done(m) /\ 408 \in Statuses(m) => ~PaidUpTo(m, payload[m].maxHeight)
====
